---------------------------- MODULE Spec2Model ----------------------------
(***************************************************************************)
(* Model of vna_temperature_control_pid.py: the temperature-ramp           *)
(* orchestration (collect_data, ramp_to_temperature, wait_for_stability,   *)
(* calculate_intermediate_temps), the background sweep thread              *)
(* (vna_sweep_thread) and the outer multi-experiment loop (__main__).      *)
(*                                                                         *)
(* Temperatures are integers counting sixteenths of a degree Celsius:      *)
(* every such value is an exact binary float, so the float arithmetic of   *)
(* the source (sums, differences, the comparison with 0.1) is exact on     *)
(* them.  Ramp rates are whole degrees per minute that divide 60.          *)
(*                                                                         *)
(* Time is in whole seconds.  The main thread reads the clock in three     *)
(* ways only: time.sleep(n), and time.time() - t0 compared with a          *)
(* threshold for t0 = step_start and t0 = stable_start.  The model keeps   *)
(* the seconds left of the running sleep (sleep_left) and the seconds      *)
(* since each stored t0 (step_start_age, stable_start_age), the latter     *)
(* two counted up to the threshold they are compared with.  The Timestamp  *)
(* and Elapsed_Time_s columns of the logs decide nothing and are left out. *)
(***************************************************************************)
EXTENDS Integers, Sequences, FiniteSets, TLC

\* ------------------------------------------------------------ constants
SAMPLING_INTERVAL_SECONDS == 5
STABILITY_DURATION == 5
\* 1 degree C and 0.5 degree C, in sixteenths of a degree
INTERMEDIATE_STEP_SIZE == 16
TEMP_TOLERANCE == 8
UnitsPerDegree == INTERMEDIATE_STEP_SIZE

\* Python's None, for values that are otherwise numbers >= 0
None == 0 - 1

\* ------------------------------------------------------------ bounds
\* experiments one process runs, and passes its sweep threads begin in all
MaxExperiments == 2
MaxSweeps == 2
\* SpecPlan draws current and target from -MaxPlanTemp..MaxPlanTemp
MaxPlanTemp == 40
\* the history counts polls up to this many
Many == 2

Abs(x) == IF x < 0 THEN 0 - x ELSE x
Last(s) == s[Len(s)]
UpTo(n, cap) == IF n < cap THEN n + 1 ELSE n

\* --------------------------------------------- calculate_intermediate_temps
\* a faulty variant of line 207, rounding up, which C10 rules out
NumStepsCeil(temp_change) ==
    (Abs(temp_change) + INTERMEDIATE_STEP_SIZE - 1) \div INTERMEDIATE_STEP_SIZE

\* line 207: int(abs(temp_change) / INTERMEDIATE_STEP_SIZE)
NumSteps(temp_change) == Abs(temp_change) \div INTERMEDIATE_STEP_SIZE

\* a faulty variant of line 220, appending the target whenever the last
\* generated setpoint is not the target, which C24 rules out
NeedsFinalTargetIfDifferent(last_temp, target) == last_temp # target

\* line 220: abs(intermediate_temps[-1] - target_temp) > 0.1
NeedsFinalTarget(last_temp, target) ==
    10 * Abs(last_temp - target) > UnitsPerDegree

\* line 225: (INTERMEDIATE_STEP_SIZE / ramp_rate) * 60
TimePerStep(rate) == (INTERMEDIATE_STEP_SIZE * 60) \div (rate * UnitsPerDegree)

calculate_intermediate_temps(current, target, rate) ==
    LET temp_change == target - current
        direction == IF temp_change > 0 THEN 1 ELSE 0 - 1
        num_steps == NumSteps(temp_change)
        generated == [i \in 1..num_steps |->
                         current + direction * INTERMEDIATE_STEP_SIZE * i]
    IN  IF num_steps = 0
        THEN [temps |-> <<target>>, time |-> 0]
        ELSE [temps |-> IF NeedsFinalTarget(generated[num_steps], target)
                        THEN Append(generated, target)
                        ELSE generated,
              time |-> TimePerStep(rate)]

\* ------------------------------------------------------------ state
VARIABLES
    \* main thread
    pc,                  \* position of the main thread
    sleep_left,          \* seconds left of its time.sleep()
    experiment_number,   \* line 663
    temps, ramp_rate, use_overshoot, overshoot_amount,   \* the profile, line 674
    step_idx, target_temp,        \* line 561
    current_temp,        \* the local current_temp of the running function
    \* ramp_to_temperature; step_start_age is time.time() - step_start
    intermediate_temps, time_per_step, setpoint_idx, step_start_age,
    \* wait_for_stability; stable_start_age is None while stable_start is
    \* None, else time.time() - stable_start
    overshoot_temp, direction, overshoot_active, stable_start_age,
    experiment_completed,         \* collect_data
    raised,              \* the exception propagating in the main thread
    \* module globals, lines 33-37; experiment_start_time is None or the
    \* number of the experiment whose start time it holds
    vna_sweep_count, vna_lock, experiment_running, experiment_start_time,
    keyboard_interrupt_count,
    \* one entry per experiment: its tracker cell, sweep thread, files, metadata
    current_temp_tracker, thread, sweep_files, metadata,
    \* the TC-720, the plate it reads, the last row of the open temperature log
    tc720, sensor_range, last_row,
    \* history of the run, read by the properties only
    hist

profVars == <<temps, ramp_rate, use_overshoot, overshoot_amount>>
rampVars == <<intermediate_temps, time_per_step, setpoint_idx, step_start_age>>
stabVars == <<overshoot_temp, direction, overshoot_active, stable_start_age>>
globVars == <<vna_sweep_count, vna_lock, experiment_running,
              experiment_start_time, keyboard_interrupt_count>>
expVars  == <<thread, sweep_files, metadata>>
vars == <<pc, sleep_left, experiment_number, profVars, step_idx, target_temp,
          current_temp, rampVars, stabVars, experiment_completed, raised,
          globVars, current_temp_tracker, expVars, tc720, sensor_range,
          last_row, hist>>

Experiments == 1..MaxExperiments

\* the experiment collect_data is running: line 667 numbers them from 1
Exp == experiment_number

\* ------------------------------------------------------------ device and log
\* What the TC-720 is doing: regulating to setpoint t after
\* device.set_temp(t), output off after device.set_idle().  The setpoint is
\* <<t>>, or <<>> when none given by this process is in force: the controller
\* starts in PID mode (line 153) on the setpoint it has stored.
SetTemp(t) == [mode |-> "run", setpoint |-> <<t>>]
SetIdle == [mode |-> "idle", setpoint |-> <<>>]

\* csvwriter.writerow({... 'Target_Temp_C', 'Sensor_Temp_1_C', 'Current_Step'});
\* Sensor_Temp_2_C is a second reading no code path looks at and is left out
Row(target, sensor) == [target |-> target, sensor |-> sensor, step |-> step_idx]
NoRow == [target |-> 0, sensor |-> 0, step |-> 0]

\* temp_log_callback['temp'] = current_temp
TrackerSet(t) == [current_temp_tracker EXCEPT ![Exp] = t]

\* time.sleep(n) of the main thread, continuing at position p
Sleep(n, p) == pc' = p /\ sleep_left' = n
Awake == sleep_left = 0

\* the locals of ramp_to_temperature and of wait_for_stability before the call
NoRampLocals ==
    /\ intermediate_temps' = <<>> /\ time_per_step' = 0
    /\ setpoint_idx' = 0 /\ step_start_age' = 0
NoStabLocals ==
    /\ overshoot_temp' = 0 /\ direction' = "heating"
    /\ overshoot_active' = FALSE /\ stable_start_age' = None

\* ------------------------------------------------------------ history
\* What the run has done so far for the target being processed.  No action
\* reads it: it is what the properties are stated over.
TargetHist0 ==
    [commands     |-> <<>>,    \* setpoints commanded for this target, in order
     ramp_entry   |-> 0,       \* the reading ramp_to_temperature took at entry
     ramp_polls   |-> 0,       \* rows logged by ramp_to_temperature, up to Many
     os_entry     |-> 0,       \* the reading wait_for_stability took at entry
     os_polls     |-> 0,       \* overshoot polls made, up to Many
     os_rows      |-> 0,       \* rows written by them, up to Many
     stab_polls   |-> 0,       \* polls of the stability loop, up to Many
     stab_rows    |-> 0,       \* rows written by them, up to Many
     os_missed    |-> FALSE,   \* an overshoot poll read a crossing and went on
     os_exited    |-> FALSE,   \* the overshoot sub-phase has ended
     os_exit_temp |-> 0,       \* the reading it ended on
     band_age     |-> None,    \* seconds since the first poll of the unbroken
                               \* run of in-band polls, up to STABILITY_DURATION
     band_runs    |-> 0,       \* such runs begun so far, up to Many
     out_in_window|-> FALSE,   \* an out-of-band poll since the window opened
     returned     |-> FALSE]   \* wait_for_stability has returned

\* What has happened to the experiment being run, and to each sweep thread.
RunHist0 ==
    [devices      |-> [tc720 |-> FALSE, vna |-> FALSE],  \* the handles
                               \* initialize_devices() returned
     ended        |-> "no",    \* how the try block was left
     confirmed    |-> 0,       \* targets given their confirmatory row so far
     missed       |-> 0,       \* targets of the list without one when the
                               \* for loop ended
     stop_signals |-> 0,       \* experiment_running = False executed
     idle_calls   |-> 0,       \* set_idle() invoked by collect_data
     idle_failed  |-> FALSE,   \* set_idle() raised
     meta_writes  |-> 0,       \* metadata.json written
     reported     |-> FALSE,   \* line 731 printed
     stopped      |-> [e \in Experiments |-> FALSE],  \* thread e was told to stop
     late_cycles  |-> [e \in Experiments |-> 0],  \* passes it began after that
     silent       |-> [e \in Experiments |-> FALSE], \* it caught an error and
                               \* printed nothing (line 503)
     assigned     |-> [e \in Experiments |-> <<>>]]  \* sweep_num values it took

\* the crossing the overshoot sub-phase waits for, from the entry reading
Crossing(entry, reading, target) ==
    IF entry > target THEN reading <= target ELSE reading >= target

Commanded(t) == [hist EXCEPT !.target.commands = Append(@, t)]

\* ------------------------------------------------------------ ramp_to_temperature
\* a faulty variant of line 401, with the tolerance not doubled, which C22
\* rules out
NearTargetWithinTolerance(reading, target) ==
    Abs(reading - target) <= TEMP_TOLERANCE

\* line 401: abs(current_temp - target_temp) <= TEMP_TOLERANCE * 2
NearTarget(reading, target) == Abs(reading - target) <= TEMP_TOLERANCE * 2

\* a faulty variant of line 421, ending the dwell when the setpoint is read,
\* which C23 rules out
DwellRemainsUnlessReached ==
    /\ step_start_age < time_per_step
    /\ current_temp # intermediate_temps[setpoint_idx]

\* line 421: time.time() - step_start < time_per_step
DwellRemains == step_start_age < time_per_step

\* lines 371-376 (fast mode) and 371, 408-412 (controlled mode)
RampEntry ==
    /\ pc = "ramp" /\ Awake
    /\ \E r \in sensor_range :
         /\ current_temp' = r
         /\ IF ramp_rate = None
            THEN /\ tc720' = SetTemp(target_temp)
                 /\ hist' = [hist EXCEPT
                       !.target.commands = Append(@, target_temp),
                       !.target.ramp_entry = r]
                 /\ pc' = "fast_poll"
                 /\ UNCHANGED rampVars
            ELSE LET plan == calculate_intermediate_temps(r, target_temp, ramp_rate)
                 IN  /\ intermediate_temps' = plan.temps
                     /\ time_per_step' = plan.time
                     /\ setpoint_idx' = 0
                     /\ hist' = [hist EXCEPT !.target.ramp_entry = r]
                     /\ pc' = "ramp_step"
                     /\ UNCHANGED <<tc720, step_start_age>>
    /\ UNCHANGED <<sleep_left, experiment_number, profVars, step_idx,
                   target_temp, stabVars, experiment_completed, raised,
                   globVars, current_temp_tracker, expVars, sensor_range,
                   last_row>>

\* lines 379-404: one pass of the fast-mode loop
FastPoll ==
    /\ pc = "fast_poll" /\ Awake
    /\ \E r \in sensor_range :
         /\ current_temp' = r
         /\ current_temp_tracker' = TrackerSet(r)
         /\ last_row' = Row(target_temp, r)
         /\ IF NearTarget(r, target_temp)
            THEN pc' = "stab" /\ sleep_left' = sleep_left
            ELSE Sleep(SAMPLING_INTERVAL_SECONDS, "fast_poll")
    /\ hist' = [hist EXCEPT !.target.ramp_polls = UpTo(@, Many)]
    /\ UNCHANGED <<experiment_number, profVars, step_idx, target_temp,
                   rampVars, stabVars, experiment_completed, raised,
                   globVars, expVars, tc720, sensor_range>>

\* lines 414-418: the for statement takes the next setpoint, or is exhausted
RampStep ==
    /\ pc = "ramp_step" /\ Awake
    /\ IF setpoint_idx < Len(intermediate_temps)
       THEN /\ setpoint_idx' = setpoint_idx + 1
            /\ tc720' = SetTemp(intermediate_temps[setpoint_idx + 1])
            /\ hist' = Commanded(intermediate_temps[setpoint_idx + 1])
            /\ step_start_age' = 0
            /\ pc' = "dwell"
       ELSE /\ pc' = "stab"
            /\ UNCHANGED <<setpoint_idx, tc720, hist, step_start_age>>
    /\ UNCHANGED <<sleep_left, experiment_number, profVars, step_idx,
                   target_temp, current_temp, intermediate_temps, time_per_step,
                   stabVars, experiment_completed, raised, globVars,
                   current_temp_tracker, expVars, sensor_range, last_row>>

\* lines 421-442: the dwell loop's test and, if it passes, one poll
Dwell ==
    /\ pc = "dwell" /\ Awake
    /\ IF DwellRemains
       THEN /\ \E r \in sensor_range :
                 /\ current_temp' = r
                 /\ current_temp_tracker' = TrackerSet(r)
                 /\ last_row' = Row(intermediate_temps[setpoint_idx], r)
            /\ hist' = [hist EXCEPT !.target.ramp_polls = UpTo(@, Many)]
            /\ Sleep(SAMPLING_INTERVAL_SECONDS, "dwell")
       ELSE /\ pc' = "ramp_step"
            /\ UNCHANGED <<current_temp, current_temp_tracker, last_row, hist,
                           sleep_left>>
    /\ UNCHANGED <<experiment_number, profVars, step_idx, target_temp,
                   rampVars, stabVars, experiment_completed, raised,
                   globVars, expVars, tc720, sensor_range>>

\* ------------------------------------------------------------ wait_for_stability
\* a faulty variant of line 250, cooling also from the target itself, which
\* C19 rules out
DirectionAtOrAbove(entry, target) ==
    IF entry >= target THEN "cooling" ELSE "heating"

\* lines 250-259: cooling when the entry reading is above the target
Direction(entry, target) == IF entry > target THEN "cooling" ELSE "heating"

\* lines 252, 257
OvershootTemp(dir, target, amount) ==
    IF dir = "cooling" THEN target - amount ELSE target + amount

\* a faulty variant of lines 294-299, with strict comparisons, which C8,
\* C20 and C34 rule out
HasCrossedStrict(dir, reading, target) ==
    IF dir = "cooling" THEN reading < target ELSE reading > target

\* lines 294-299
HasCrossed(dir, reading, target) ==
    IF dir = "cooling" THEN reading <= target ELSE reading >= target

\* a faulty variant of line 305, leaving the overshoot setpoint in place,
\* which C18 rules out
SetpointOnCrossingKept == overshoot_temp

\* line 305: the setpoint applied on crossing
SetpointOnCrossing == target_temp

\* line 340
InTolerance(reading, target) == Abs(reading - target) <= TEMP_TOLERANCE

\* a faulty variant of line 346, a second short, which C7 rules out
StableAlmostLongEnough(duration) == duration >= STABILITY_DURATION - 1

\* line 346
StableLongEnough(duration) == duration >= STABILITY_DURATION

\* a faulty variant of line 352, keeping the window open, which C6 rules out
StableStartKept == stable_start_age

\* line 352: stable_start after a poll outside the band
StableStartOutOfBand == None

\* a faulty variant of line 285, logging the target proper, which C21 rules
\* out
OvershootRowTargetProper == target_temp

\* line 285: the Target_Temp_C column of a row of the overshoot loop
OvershootRowTarget == overshoot_temp

\* lines 246-269 with overshoot, lines 246 and 315-317 without
StabEntry ==
    /\ pc = "stab" /\ Awake
    /\ \E r \in sensor_range :
         /\ current_temp' = r
         /\ IF use_overshoot
            THEN LET dir == Direction(r, target_temp)
                     os  == OvershootTemp(dir, target_temp, overshoot_amount)
                 IN  /\ direction' = dir
                     /\ overshoot_temp' = os
                     /\ tc720' = SetTemp(os)
                     /\ overshoot_active' = TRUE
                     /\ hist' = [hist EXCEPT !.target.commands = Append(@, os),
                                             !.target.os_entry = r]
                     /\ pc' = "os_poll"
                     /\ UNCHANGED stable_start_age
            ELSE /\ stable_start_age' = None
                 /\ pc' = "stab_poll"
                 /\ UNCHANGED <<direction, overshoot_temp, overshoot_active,
                                tc720, hist>>
    /\ UNCHANGED <<sleep_left, experiment_number, profVars, step_idx,
                   target_temp, rampVars, experiment_completed, raised,
                   globVars, current_temp_tracker, expVars, sensor_range,
                   last_row>>

\* lines 272-310: one pass of the overshoot loop, up to its sleep
OvershootPoll ==
    /\ pc = "os_poll" /\ Awake
    /\ \E r \in sensor_range :
         /\ current_temp' = r
         /\ current_temp_tracker' = TrackerSet(r)
         /\ last_row' = Row(OvershootRowTarget, r)
         /\ IF HasCrossed(direction, r, target_temp)
            THEN /\ tc720' = SetTemp(SetpointOnCrossing)
                 /\ overshoot_active' = FALSE
                 /\ hist' = [hist EXCEPT
                       !.target.commands = Append(@, SetpointOnCrossing),
                       !.target.os_polls = UpTo(@, Many),
                       !.target.os_rows = UpTo(@, Many),
                       !.target.os_exited = TRUE,
                       !.target.os_exit_temp = r]
            ELSE /\ UNCHANGED <<tc720, overshoot_active>>
                 /\ hist' = [hist EXCEPT
                       !.target.os_polls = UpTo(@, Many),
                       !.target.os_rows = UpTo(@, Many),
                       !.target.os_missed =
                           @ \/ Crossing(hist.target.os_entry, r, target_temp)]
    /\ Sleep(2, "os_loop")
    /\ UNCHANGED <<experiment_number, profVars, step_idx, target_temp,
                   rampVars, overshoot_temp, direction, stable_start_age,
                   experiment_completed, raised, globVars, expVars,
                   sensor_range>>

\* line 271 after the sleep of line 310: poll again, or leave the loop, pause
\* (line 312) and start the stability check with no window open (line 317)
OvershootLoop ==
    /\ pc = "os_loop" /\ Awake
    /\ IF overshoot_active
       THEN pc' = "os_poll" /\ UNCHANGED <<sleep_left, stable_start_age>>
       ELSE Sleep(1, "stab_poll") /\ stable_start_age' = None
    /\ UNCHANGED <<experiment_number, profVars, step_idx, target_temp,
                   current_temp, rampVars, overshoot_temp, direction,
                   overshoot_active, experiment_completed, raised, globVars,
                   current_temp_tracker, expVars, tc720, sensor_range,
                   last_row, hist>>

\* lines 320-354: one pass of the stability loop: return True, or sleep
StabPoll ==
    /\ pc = "stab_poll" /\ Awake
    /\ \E r \in sensor_range :
         LET in_band == Abs(r - target_temp) <= TEMP_TOLERANCE
             h == [hist.target EXCEPT
                     !.stab_polls = UpTo(@, Many),
                     !.stab_rows = UpTo(@, Many),
                     !.band_age = IF ~in_band THEN None
                                  ELSE IF @ = None THEN 0 ELSE @,
                     !.band_runs =
                         IF in_band /\ hist.target.band_age = None
                         THEN UpTo(@, Many) ELSE @,
                     !.out_in_window =
                         IF stable_start_age = None THEN ~in_band
                         ELSE @ \/ ~in_band]
         IN
         /\ current_temp' = r
         /\ current_temp_tracker' = TrackerSet(r)
         /\ last_row' = Row(target_temp, r)
         /\ IF InTolerance(r, target_temp)
            THEN IF stable_start_age = None
                 THEN /\ stable_start_age' = 0
                      /\ Sleep(2, "stab_poll")
                      /\ hist' = [hist EXCEPT !.target = h]
                 ELSE /\ IF StableLongEnough(stable_start_age)
                         THEN /\ pc' = "confirm" /\ sleep_left' = sleep_left
                              /\ hist' = [hist EXCEPT !.target =
                                            [h EXCEPT !.returned = TRUE]]
                         ELSE /\ Sleep(2, "stab_poll")
                              /\ hist' = [hist EXCEPT !.target = h]
                      /\ UNCHANGED stable_start_age
            ELSE /\ stable_start_age' = StableStartOutOfBand
                 /\ Sleep(2, "stab_poll")
                 /\ hist' = [hist EXCEPT !.target = h]
    /\ UNCHANGED <<experiment_number, profVars, step_idx, target_temp,
                   rampVars, overshoot_temp, direction, overshoot_active,
                   experiment_completed, raised, globVars, expVars, tc720,
                   sensor_range>>

\* lines 592-607: the confirmatory row after wait_for_stability has returned
ConfirmRow ==
    /\ pc = "confirm" /\ Awake
    /\ \E r \in sensor_range :
         /\ current_temp' = r
         /\ current_temp_tracker' = TrackerSet(r)
         /\ last_row' = Row(target_temp, r)
    /\ pc' = "loop"
    /\ hist' = [hist EXCEPT !.run.confirmed = @ + 1]
    /\ UNCHANGED <<sleep_left, experiment_number, profVars, step_idx,
                   target_temp, rampVars, stabVars, experiment_completed,
                   raised, globVars, expVars, tc720, sensor_range>>

\* a faulty variant of line 561, leaving the last target out, which C11
\* rules out
MoreTargetsButLast == step_idx + 1 < Len(temps)

\* line 561: enumerate(temps, 1) has a next element
MoreTargets == step_idx < Len(temps)

\* a faulty variant of line 561, taking the list from its end, which C17
\* rules out
TargetOfStepReversed(k) == temps[Len(temps) + 1 - k]

\* line 561: the element enumerate(temps, 1) pairs with step index k
TargetOfStep(k) == temps[k]

\* lines 561 and 609-610: the for statement takes the next target, with the
\* called functions' frames fresh, or is exhausted and the experiment is
\* complete
LoopHead ==
    /\ pc = "loop" /\ Awake
    /\ IF MoreTargets
       THEN /\ step_idx' = step_idx + 1
            /\ target_temp' = TargetOfStep(step_idx + 1)
            /\ pc' = "ramp"
            /\ hist' = [hist EXCEPT !.target = TargetHist0]
            /\ NoRampLocals /\ NoStabLocals
            /\ UNCHANGED experiment_completed
       ELSE /\ experiment_completed' = TRUE
            /\ pc' = "all_done"
            /\ hist' = [hist EXCEPT
                  !.run.missed = Len(temps) - hist.run.confirmed]
            /\ UNCHANGED <<step_idx, target_temp, rampVars, stabVars>>
    /\ UNCHANGED <<sleep_left, experiment_number, profVars, current_temp,
                   raised, globVars, current_temp_tracker, expVars, tc720,
                   sensor_range, last_row>>

\* ------------------------------------------------------------ time
\* A second passes: the stored start times of the loop the main thread is in
\* are a second older.
Elapse ==
    /\ step_start_age' =
         IF pc = "dwell" THEN UpTo(step_start_age, time_per_step)
         ELSE step_start_age
    /\ stable_start_age' =
         IF pc = "stab_poll" /\ stable_start_age # None
         THEN UpTo(stable_start_age, STABILITY_DURATION)
         ELSE stable_start_age
    /\ hist' = [hist EXCEPT !.target.band_age =
                  IF pc = "stab_poll" /\ @ # None
                  THEN UpTo(@, STABILITY_DURATION) ELSE @]
    /\ UNCHANGED <<pc, experiment_number, profVars, step_idx, target_temp,
                   current_temp, intermediate_temps, time_per_step,
                   setpoint_idx, overshoot_temp, direction, overshoot_active,
                   experiment_completed, raised, globVars,
                   current_temp_tracker, expVars, tc720, sensor_range,
                   last_row>>

\* a second of the main thread's sleep passes
Tick ==
    /\ sleep_left > 0
    /\ sleep_left' = sleep_left - 1
    /\ Elapse

\* a second passes between two statements of a polling loop: the sleep
\* overran, or the controller or the log file took their time
TickLate ==
    /\ sleep_left = 0
    /\ pc \in {"dwell", "stab_poll"}
    /\ UNCHANGED sleep_left
    /\ Elapse

\* ------------------------------------------------------------ initial states
NoMetadata == [written |-> FALSE, total_sweeps |-> 0, completed |-> FALSE]
\* a sweep thread: where it is, its locals current_temp and sweep_num, the
\* value it loaded for vna_sweep_count += 1, and the passes it has begun
NoThread == [at |-> "unborn", current_temp |-> 0, sweep_num |-> 0,
             loaded |-> 0, passes |-> 0]

\* module load, lines 33-37, and nothing run yet
InitGlobals ==
    /\ vna_sweep_count = 0
    /\ vna_lock = 0
    /\ experiment_running = TRUE
    /\ experiment_start_time = None
    /\ keyboard_interrupt_count = 0
    /\ current_temp_tracker = [e \in Experiments |-> 0]
    /\ thread = [e \in Experiments |-> NoThread]
    /\ sweep_files = [e \in Experiments |-> <<>>]
    /\ metadata = [e \in Experiments |-> NoMetadata]
    /\ tc720 = [mode |-> "run", setpoint |-> <<>>]
    /\ last_row = NoRow
    /\ sleep_left = 0
    /\ raised = "none"
    /\ experiment_completed = FALSE
    /\ hist = [target |-> TargetHist0, run |-> RunHist0]

InitLocals ==
    /\ intermediate_temps = <<>> /\ time_per_step = 0
    /\ setpoint_idx = 0 /\ step_start_age = 0
    /\ overshoot_temp = 0 /\ direction = "heating" /\ overshoot_active = FALSE
    /\ stable_start_age = None

\* ------------------------------------------------------------ SpecPlan
\* calculate_intermediate_temps on every (current, target, rate) of a grid
PlanTemps == (0 - MaxPlanTemp)..MaxPlanTemp
PlanRates == {2, 60}

\* line 408
PlanCall ==
    /\ pc = "plan"
    /\ LET plan == calculate_intermediate_temps(current_temp, target_temp, ramp_rate)
       IN  /\ intermediate_temps' = plan.temps
           /\ time_per_step' = plan.time
    /\ pc' = "planned"
    /\ UNCHANGED <<sleep_left, experiment_number, profVars, step_idx,
                   target_temp, current_temp, setpoint_idx, step_start_age,
                   stabVars, experiment_completed, raised, globVars,
                   current_temp_tracker, expVars, tc720, sensor_range,
                   last_row, hist>>

InitPlan ==
    /\ pc = "plan"
    /\ current_temp \in PlanTemps
    /\ target_temp \in PlanTemps
    /\ ramp_rate \in PlanRates
    /\ temps = <<>> /\ use_overshoot = FALSE /\ overshoot_amount = 0
    /\ experiment_number = 1 /\ step_idx = 1
    /\ sensor_range = {}
    /\ InitGlobals /\ InitLocals

NextPlan == PlanCall
SpecPlan == InitPlan /\ [][NextPlan]_vars

\* ------------------------------------------------------------ SpecTarget
\* The for loop of collect_data (lines 561-610) with ramp_to_temperature and
\* wait_for_stability, over every sequence of readings from a plate range and
\* every timing the sleeps allow.
TargetLists == {<<32>>, <<32, 10>>}
TargetRates == {None, 12, 60}
TargetAmounts == {80}
TargetSensorRange == {0 - 1, 10, 23, 24, 32, 64}

InitTarget ==
    /\ pc = "loop"
    /\ temps \in TargetLists
    /\ ramp_rate \in TargetRates
    /\ use_overshoot \in BOOLEAN
    /\ overshoot_amount \in TargetAmounts
    /\ current_temp = 0 /\ target_temp = 0
    /\ experiment_number = 1 /\ step_idx = 0
    /\ sensor_range = TargetSensorRange
    /\ InitGlobals /\ InitLocals

NextTarget ==
    \/ LoopHead
    \/ RampEntry \/ FastPoll \/ RampStep \/ Dwell
    \/ StabEntry \/ OvershootPoll \/ OvershootLoop \/ StabPoll \/ ConfirmRow
    \/ Tick \/ TickLate
SpecTarget == InitTarget /\ [][NextTarget]_vars

\* ------------------------------------------------------------ collect_data
\* positions inside the try block of lines 560-615
BodyPcs == {"loop", "ramp", "fast_poll", "ramp_step", "dwell", "stab",
            "os_poll", "os_loop", "stab_poll", "confirm"}
\* those whose next statement talks to the controller or the log file
IoPcs == BodyPcs \ {"loop", "os_loop"}
TryPcs == BodyPcs \cup {"all_done"}

\* the try block is left: the frames of collect_data's callees and its loop
\* variables are gone, nothing more is written to the temperature log, and
\* the profile is not read again before line 674 replaces it
NoBodyLocals ==
    /\ step_idx' = 0 /\ target_temp' = 0 /\ current_temp' = 0
    /\ NoRampLocals /\ NoStabLocals
    /\ last_row' = NoRow
    /\ temps' = <<>> /\ ramp_rate' = None
    /\ use_overshoot' = FALSE /\ overshoot_amount' = 0

\* lines 513-515
CD_Reset ==
    /\ pc = "cd_reset"
    /\ vna_sweep_count' = 0
    /\ experiment_running' = TRUE
    /\ keyboard_interrupt_count' = 0
    /\ pc' = "cd_tracker"
    /\ UNCHANGED <<sleep_left, experiment_number, profVars, step_idx,
                   target_temp, current_temp, rampVars, stabVars,
                   experiment_completed, raised, vna_lock,
                   experiment_start_time, current_temp_tracker, expVars,
                   tc720, sensor_range, last_row, hist>>

\* line 533
CD_Tracker ==
    /\ pc = "cd_tracker"
    /\ \E r \in sensor_range : current_temp_tracker' = TrackerSet(r)
    /\ pc' = "cd_thread"
    /\ UNCHANGED <<sleep_left, experiment_number, profVars, step_idx,
                   target_temp, current_temp, rampVars, stabVars,
                   experiment_completed, raised, globVars, expVars, tc720,
                   sensor_range, last_row, hist>>

\* lines 539-540
CD_StartThread ==
    /\ pc = "cd_thread"
    /\ thread' = [thread EXCEPT ![Exp].at = "while"]
    /\ pc' = "cd_open"
    /\ UNCHANGED <<sleep_left, experiment_number, profVars, step_idx,
                   target_temp, current_temp, rampVars, stabVars,
                   experiment_completed, raised, globVars,
                   current_temp_tracker, sweep_files, metadata, tc720,
                   sensor_range, last_row, hist>>

\* lines 543-558
CD_Open ==
    /\ pc = "cd_open"
    /\ last_row' = NoRow
    /\ experiment_start_time' = Exp
    /\ experiment_completed' = FALSE
    /\ step_idx' = 0
    /\ pc' = "loop"
    /\ UNCHANGED <<sleep_left, experiment_number, profVars, target_temp,
                   current_temp, rampVars, stabVars, raised, vna_sweep_count,
                   vna_lock, experiment_running, keyboard_interrupt_count,
                   current_temp_tracker, expVars, tc720, sensor_range, hist>>

\* lines 611-615, then into the finally block
AllDone ==
    /\ pc = "all_done"
    /\ pc' = "f_stop"
    /\ hist' = [hist EXCEPT !.run.ended = "completed", !.run.confirmed = 0,
                            !.target = TargetHist0]
    /\ NoBodyLocals
    /\ UNCHANGED <<sleep_left, experiment_number,
                   experiment_completed, raised, globVars,
                   current_temp_tracker, expVars, tc720, sensor_range>>

\* Ctrl+C anywhere in the try block, a sleep included; lines 617-619
Interrupt ==
    /\ pc \in TryPcs
    /\ keyboard_interrupt_count' = 1
    /\ pc' = "f_stop" /\ sleep_left' = 0
    /\ hist' = [hist EXCEPT
                  !.run.ended = IF pc \in BodyPcs THEN "interrupt"
                                ELSE "interrupt_after_loop",
                  !.run.confirmed = 0,
                  !.target = TargetHist0]
    /\ NoBodyLocals
    /\ UNCHANGED <<experiment_number, experiment_completed, raised,
                   vna_sweep_count, vna_lock, experiment_running,
                   experiment_start_time, current_temp_tracker, expVars,
                   tc720, sensor_range>>

\* a call on the controller or the log file raises; no except clause of
\* collect_data matches, the finally block runs with the exception pending
BodyError ==
    /\ pc \in IoPcs /\ Awake
    /\ raised' = "Exception"
    /\ pc' = "f_stop"
    /\ hist' = [hist EXCEPT !.run.ended = "error", !.run.confirmed = 0,
                            !.target = TargetHist0]
    /\ NoBodyLocals
    /\ UNCHANGED <<sleep_left, experiment_number,
                   experiment_completed, globVars, current_temp_tracker,
                   expVars, tc720, sensor_range>>

\* a faulty variant of the finally block, going from line 622 to the
\* metadata without set_idle(), which C16 rules out
AfterStopToMetadata == "f_meta"

\* lines 622-626: set_idle() comes next after experiment_running = False
AfterStop == "f_idle"

\* line 622
F_Stop ==
    /\ pc = "f_stop"
    /\ experiment_running' = FALSE
    /\ hist' = [hist EXCEPT !.run.stop_signals = @ + 1,
                            !.run.stopped[Exp] = TRUE]
    /\ pc' = AfterStop
    /\ UNCHANGED <<sleep_left, experiment_number, profVars, step_idx,
                   target_temp, current_temp, rampVars, stabVars,
                   experiment_completed, raised, vna_sweep_count, vna_lock,
                   experiment_start_time, keyboard_interrupt_count,
                   current_temp_tracker, expVars, tc720, sensor_range,
                   last_row>>

\* lines 625-631: set_idle() takes effect, or raises and the bare except
\* passes; then the sleep of line 631
F_Idle ==
    /\ pc = "f_idle"
    /\ \E ok \in BOOLEAN :
         /\ tc720' = IF ok THEN SetIdle ELSE tc720
         /\ hist' = [hist EXCEPT !.run.idle_calls = @ + 1,
                                 !.run.idle_failed = ~ok]
    /\ Sleep(2, "f_meta")
    /\ UNCHANGED <<experiment_number, profVars, step_idx, target_temp,
                   current_temp, rampVars, stabVars, experiment_completed,
                   raised, globVars, current_temp_tracker, expVars,
                   sensor_range, last_row>>

\* a faulty variant of line 636, which C1 rules out
MetadataRecordCompleted ==
    [written |-> TRUE, total_sweeps |-> vna_sweep_count, completed |-> TRUE]

\* lines 634-640: the record written to metadata.json
MetadataRecord ==
    [written |-> TRUE, total_sweeps |-> vna_sweep_count,
     completed |-> experiment_completed]

\* a faulty variant of the finally block, swallowing the pending exception,
\* which C4 rules out
AfterFinallySwallowed == "m_finished"

\* line 646 or line 730: where control goes when the finally block is done
AfterFinally == IF raised = "Exception" THEN "m_except" ELSE "m_finished"

\* lines 634-646: metadata.json is written, the log file closed, and
\* collect_data returns or lets the pending exception go on to line 730; the
\* value it returns is stored at line 692 and read nowhere
F_Meta ==
    /\ pc = "f_meta" /\ Awake
    /\ metadata' = [metadata EXCEPT ![Exp] = MetadataRecord]
    /\ hist' = [hist EXCEPT !.run.meta_writes = @ + 1]
    /\ experiment_completed' = FALSE
    /\ pc' = AfterFinally
    /\ UNCHANGED <<sleep_left, experiment_number, profVars, step_idx,
                   target_temp, current_temp, rampVars, stabVars,
                   raised, globVars,
                   current_temp_tracker, thread, sweep_files, tc720,
                   sensor_range, last_row>>

\* Ctrl+C in the finally block: KeyboardInterrupt leaves collect_data, line
\* 730 does not catch it, the interpreter ends with its daemon threads
FinallyInterrupt ==
    /\ pc \in {"f_stop", "f_idle", "f_meta"}
    /\ raised' = "KeyboardInterrupt"
    /\ pc' = "killed" /\ sleep_left' = 0
    /\ UNCHANGED <<experiment_number, profVars, step_idx, target_temp,
                   current_temp, rampVars, stabVars, experiment_completed,
                   globVars, current_temp_tracker, expVars, tc720,
                   sensor_range, last_row, hist>>

\* ------------------------------------------------------------ vna_sweep_thread
\* The thread of experiment e.  It is a daemon thread: it runs while the
\* process does.  Its sleeps are not timed: it may wake at any later point.
ProcessAlive == pc \notin {"exited", "killed"}
At(e, where) == ProcessAlive /\ thread[e].at = where
Goto(e, where) == [thread EXCEPT ![e].at = where]
\* the pass is over: its locals are not read again
Asleep(e, where) ==
    [thread EXCEPT ![e].at = where, ![e].current_temp = 0, ![e].sweep_num = 0]

\* passes begun so far by the sweep threads of experiments 1..n
RECURSIVE Passes(_)
Passes(n) == IF n = 0 THEN 0 ELSE thread[n].passes + Passes(n - 1)

mainVars == <<pc, sleep_left, experiment_number, profVars, step_idx,
              target_temp, current_temp, rampVars, stabVars,
              experiment_completed, raised, keyboard_interrupt_count,
              current_temp_tracker, metadata, tc720, sensor_range, last_row>>

\* a faulty variant of lines 502-505, ending the thread, which C13 rules out
OnSweepErrorFatal == "returned"

\* lines 502-505: where the thread is once the handler has caught an error
OnSweepError == "backoff"

\* a faulty variant of line 451, a loop that does not look at the flag, which
\* C25 rules out
KeepSweepingAlways == TRUE

\* line 451: while experiment_running
KeepSweeping == experiment_running

\* lines 451-454: the loop test; the thread returns, or a pass begins with
\* the snapshot of the experiment's tracker cell
T_While(e) ==
    /\ At(e, "while")
    /\ IF KeepSweeping
       THEN /\ Passes(MaxExperiments) < MaxSweeps
            /\ thread' = [thread EXCEPT ![e].at = "lock",
                            ![e].passes = @ + 1,
                            ![e].current_temp = current_temp_tracker[e]]
            /\ hist' = [hist EXCEPT !.run.late_cycles[e] =
                          IF hist.run.stopped[e] THEN UpTo(@, Many) ELSE @]
       ELSE /\ thread' = Goto(e, "returned")
            /\ UNCHANGED hist
    /\ UNCHANGED <<mainVars, vna_sweep_count, vna_lock, experiment_running,
                   experiment_start_time, sweep_files>>

\* lines 457-458: the lock is taken and vna_sweep_count is loaded
T_Load(e) ==
    /\ At(e, "lock")
    /\ vna_lock = 0
    /\ vna_lock' = e
    /\ thread' = [thread EXCEPT ![e].at = "store",
                                ![e].loaded = vna_sweep_count]
    /\ UNCHANGED <<mainVars, vna_sweep_count, experiment_running,
                   experiment_start_time, sweep_files, hist>>

\* line 458: the incremented value is stored
T_Store(e) ==
    /\ At(e, "store")
    /\ vna_sweep_count' = thread[e].loaded + 1
    /\ thread' = [thread EXCEPT ![e].at = "number", ![e].loaded = 0]
    /\ UNCHANGED <<mainVars, vna_lock, experiment_running,
                   experiment_start_time, sweep_files, hist>>

\* lines 459-465: sweep_num is read back and the lock released; then
\* time.time() - experiment_start_time raises TypeError while the global is
\* None, and the handler of line 502 takes over
T_Number(e) ==
    /\ At(e, "number")
    /\ thread' = [thread EXCEPT
                    ![e].at = IF experiment_start_time = None
                              THEN OnSweepError ELSE "query",
                    ![e].current_temp = IF experiment_start_time = None
                                        THEN 0 ELSE @,
                    ![e].sweep_num = IF experiment_start_time = None
                                     THEN 0 ELSE vna_sweep_count]
    /\ vna_lock' = 0
    /\ hist' = [hist EXCEPT
                  !.run.assigned[e] = Append(@, vna_sweep_count),
                  !.run.silent[e] = @ \/ (experiment_start_time = None
                                           /\ ~experiment_running)]
    /\ UNCHANGED <<mainVars, vna_sweep_count, experiment_running,
                   experiment_start_time, sweep_files>>

\* line 478, f"{current_temp:.1f}": the tenths of a degree nearest to the
\* value, the even one of two equally near
OneDecimal(t) ==
    LET q == (10 * t) \div UnitsPerDegree
        r == (10 * t) % UnitsPerDegree
    IN  IF 2 * r < UnitsPerDegree \/ (2 * r = UnitsPerDegree /\ q % 2 = 0)
        THEN q ELSE q + 1

\* a faulty variant of lines 478 and 491, asking the tracker again when the
\* file is written, which C26 rules out
SweepTempLatest(e) == current_temp_tracker[e]

\* lines 478, 491: the thread's local current_temp, read at line 454
SweepTemp(e) == thread[e].current_temp

\* lines 478-494: the file of a sweep: the number and the temperature in its
\* name, and the Temperature_C column of its rows
SweepRecord(e) ==
    [num |-> thread[e].sweep_num, name_temp |-> OneDecimal(SweepTemp(e)),
     temp |-> SweepTemp(e)]

\* lines 469-500: the query answers and the file is written, or a call
\* raises and the handler of line 502 takes over
T_Query(e) ==
    /\ At(e, "query")
    /\ \E ok \in BOOLEAN :
         IF ok
         THEN /\ sweep_files' = [sweep_files EXCEPT ![e] =
                    Append(@, SweepRecord(e))]
              /\ thread' = Asleep(e, "sleep")
              /\ UNCHANGED hist
         ELSE /\ thread' = Asleep(e, OnSweepError)
              /\ hist' = [hist EXCEPT
                    !.run.silent[e] = @ \/ ~experiment_running]
              /\ UNCHANGED sweep_files
    /\ UNCHANGED <<mainVars, vna_sweep_count, vna_lock, experiment_running,
                   experiment_start_time>>

\* the sleep of line 500 or of line 505 ends
T_Wake(e) ==
    /\ At(e, "sleep") \/ At(e, "backoff")
    /\ thread' = Goto(e, "while")
    /\ UNCHANGED <<mainVars, vna_sweep_count, vna_lock, experiment_running,
                   experiment_start_time, sweep_files, hist>>

\* ------------------------------------------------------------ __main__
\* the profiles get_temperature_profile() returns in this model;
\* overshoot_amount is 10 degrees unless the user gives another
RunProfiles ==
    { [temps |-> <<32, 40>>, ramp_rate |-> None, use_overshoot |-> FALSE,
       overshoot_amount |-> 160],
      [temps |-> <<32>>, ramp_rate |-> 60, use_overshoot |-> TRUE,
       overshoot_amount |-> 80] }
RunSensorRange == {32}

\* lines 148-187: the handles initialize_devices returns (TRUE: a handle,
\* FALSE: None); a failed TC-720 connection returns None for both
initialize_devices(tc_ok, vna_ok) ==
    [tc720 |-> tc_ok, vna |-> tc_ok /\ vna_ok]

\* a faulty variant of line 659, going on without the VNA, which C15 rules out
DevicesAvailableTC720(d) == d.tc720

\* line 659: neither handle is None
DevicesAvailable(d) == d.tc720 /\ d.vna

\* lines 658-663: the devices open, or the process exits with status 1
M_Init ==
    /\ pc = "init"
    /\ \E tc_ok, vna_ok \in BOOLEAN :
         /\ pc' = IF DevicesAvailable(initialize_devices(tc_ok, vna_ok))
                  THEN "profile" ELSE "exited"
         /\ hist' = [hist EXCEPT
                       !.run.devices = initialize_devices(tc_ok, vna_ok)]
    /\ UNCHANGED <<sleep_left, experiment_number, profVars, step_idx,
                   target_temp, current_temp, rampVars, stabVars,
                   experiment_completed, raised, globVars,
                   current_temp_tracker, expVars, tc720, sensor_range,
                   last_row>>

\* lines 667-692: the next experiment is numbered, configured and started
M_Profile ==
    /\ pc = "profile"
    /\ experiment_number < MaxExperiments
    /\ experiment_number' = experiment_number + 1
    /\ \E p \in RunProfiles :
         /\ temps' = p.temps /\ ramp_rate' = p.ramp_rate
         /\ use_overshoot' = p.use_overshoot
         /\ overshoot_amount' = p.overshoot_amount
    /\ hist' = [hist EXCEPT !.run.ended = "no", !.run.confirmed = 0,
                            !.run.missed = 0,
                            !.run.stop_signals = 0, !.run.idle_calls = 0,
                            !.run.idle_failed = FALSE, !.run.meta_writes = 0,
                            !.run.reported = FALSE]
    /\ pc' = "cd_reset"
    /\ UNCHANGED <<sleep_left, step_idx, target_temp, current_temp, rampVars,
                   stabVars, experiment_completed, raised, globVars,
                   current_temp_tracker, expVars, tc720, sensor_range,
                   last_row>>

\* lines 695-728: collect_data has returned; Enter, or Ctrl+C at the prompt
M_Finished ==
    /\ pc = "m_finished"
    /\ \E enter \in BOOLEAN :
         IF enter
         THEN /\ pc' = "profile"
              /\ keyboard_interrupt_count' = 0
         ELSE /\ pc' = "cleanup"
              /\ UNCHANGED keyboard_interrupt_count
    /\ UNCHANGED <<sleep_left, experiment_number, profVars, step_idx,
                   target_temp, current_temp, rampVars, stabVars,
                   experiment_completed, raised, vna_sweep_count, vna_lock,
                   experiment_running, experiment_start_time,
                   current_temp_tracker, expVars, tc720, sensor_range,
                   last_row, hist>>

\* lines 730-738: the exception is reported; Enter, or Ctrl+C at the prompt
M_Except ==
    /\ pc = "m_except"
    /\ raised' = "none"
    /\ hist' = [hist EXCEPT !.run.reported = TRUE]
    /\ \E enter \in BOOLEAN : pc' = IF enter THEN "profile" ELSE "cleanup"
    /\ UNCHANGED <<sleep_left, experiment_number, profVars, step_idx,
                   target_temp, current_temp, rampVars, stabVars,
                   experiment_completed, globVars, current_temp_tracker,
                   expVars, tc720, sensor_range, last_row>>

\* lines 741-751: the device is set idle, or the call raises and is passed over
M_Cleanup ==
    /\ pc = "cleanup"
    /\ \E ok \in BOOLEAN : tc720' = IF ok THEN SetIdle ELSE tc720
    /\ pc' = "exited"
    /\ UNCHANGED <<sleep_left, experiment_number, profVars, step_idx,
                   target_temp, current_temp, rampVars, stabVars,
                   experiment_completed, raised, globVars,
                   current_temp_tracker, expVars, sensor_range, last_row,
                   hist>>

\* ------------------------------------------------------------ Spec
Init ==
    /\ pc = "init"
    /\ experiment_number = 0
    /\ temps = <<>> /\ ramp_rate = None
    /\ use_overshoot = FALSE /\ overshoot_amount = 0
    /\ step_idx = 0 /\ target_temp = 0 /\ current_temp = 0
    /\ sensor_range = RunSensorRange
    /\ InitGlobals /\ InitLocals

Next ==
    \/ M_Init \/ M_Profile \/ M_Finished \/ M_Except \/ M_Cleanup
    \/ CD_Reset \/ CD_Tracker \/ CD_StartThread \/ CD_Open
    \/ LoopHead \/ AllDone \/ Interrupt \/ BodyError
    \/ F_Stop \/ F_Idle \/ F_Meta \/ FinallyInterrupt
    \/ RampEntry \/ FastPoll \/ RampStep \/ Dwell
    \/ StabEntry \/ OvershootPoll \/ OvershootLoop \/ StabPoll \/ ConfirmRow
    \/ Tick
    \/ \E e \in Experiments :
         \/ T_While(e) \/ T_Load(e) \/ T_Store(e) \/ T_Number(e)
         \/ T_Query(e) \/ T_Wake(e)

Spec == Init /\ [][Next]_vars


\* ------------------------------------------------------------ SpecSweep
\* One experiment in fast mode with its sweep thread, the controller reading
\* values that tenths of a degree do and do not express.
SweepSensorRange == {4, 23, 32}

InitSweep ==
    /\ pc = "cd_reset"
    /\ experiment_number = 1
    /\ temps = <<32>> /\ ramp_rate = None
    /\ use_overshoot = FALSE /\ overshoot_amount = 0
    /\ step_idx = 0 /\ target_temp = 0 /\ current_temp = 0
    /\ sensor_range = SweepSensorRange
    /\ InitGlobals /\ InitLocals

NextSweep ==
    \/ CD_Reset \/ CD_Tracker \/ CD_StartThread \/ CD_Open
    \/ LoopHead \/ AllDone \/ Interrupt
    \/ F_Stop \/ F_Idle \/ F_Meta
    \/ RampEntry \/ FastPoll \/ StabEntry \/ StabPoll \/ ConfirmRow
    \/ Tick
    \/ \E e \in Experiments :
         \/ T_While(e) \/ T_Load(e) \/ T_Store(e) \/ T_Number(e)
         \/ T_Query(e) \/ T_Wake(e)

SpecSweep == InitSweep /\ [][NextSweep]_vars

\* ------------------------------------------------------------ SpecLive
\* One experiment from the head of its per-target loop to the return of
\* collect_data, with no Ctrl+C and no failing call in the try block; the main
\* thread keeps running and its sleeps end.
LiveLists == {<<32, 10>>}
LiveRates == {None, 60}
LiveSensorRange == {10, 24, 32, 64}

InitLive ==
    /\ pc = "loop"
    /\ temps \in LiveLists
    /\ ramp_rate \in LiveRates
    /\ use_overshoot \in BOOLEAN
    /\ overshoot_amount = 80
    /\ current_temp = 0 /\ target_temp = 0
    /\ experiment_number = 1 /\ step_idx = 0
    /\ sensor_range = LiveSensorRange
    /\ InitGlobals /\ InitLocals

NextLive ==
    \/ LoopHead
    \/ RampEntry \/ FastPoll \/ RampStep \/ Dwell
    \/ StabEntry \/ OvershootPoll \/ OvershootLoop \/ StabPoll \/ ConfirmRow
    \/ AllDone \/ F_Stop \/ F_Idle \/ F_Meta
    \/ Tick

SpecLive == InitLive /\ [][NextLive]_vars /\ WF_vars(NextLive)
\* ============================================================ properties
\* ------------------------------------------------------------ under SpecPlan
\* C9: for every (current, target, rate) with rate > 0 the plan of
\* calculate_intermediate_temps moves monotonically in the direction of
\* target - current, ends at exactly target, and every step but possibly the
\* last has the magnitude of the step size.
C9_PlanShape ==
    pc = "planned" =>
      LET plan == intermediate_temps
          dir == IF target_temp - current_temp > 0 THEN 1 ELSE 0 - 1
          From(i) == IF i = 1 THEN current_temp ELSE plan[i - 1]
      IN  /\ Last(plan) = target_temp
          /\ \A i \in 1..Len(plan) :
               /\ (plan[i] - From(i)) * dir >= 0
               /\ i < Len(plan) =>
                    Abs(plan[i] - From(i)) = INTERMEDIATE_STEP_SIZE

\* C24: when steps = floor(|target - current| / step size) is at least 1, the
\* plan is current + direction * step size * i for i = 1..steps, followed by
\* the target as one more setpoint exactly when the last of these is more
\* than 0.1 degree from the target, and the dwell is step size / rate * 60
\* seconds.
C24_PlanNumbers ==
    (pc = "planned" /\ Abs(target_temp - current_temp) >= INTERMEDIATE_STEP_SIZE) =>
      LET steps == Abs(target_temp - current_temp) \div INTERMEDIATE_STEP_SIZE
          dir == IF target_temp > current_temp THEN 1 ELSE 0 - 1
          gen(i) == current_temp + dir * INTERMEDIATE_STEP_SIZE * i
          extra == 10 * Abs(gen(steps) - target_temp) > UnitsPerDegree
      IN  /\ Len(intermediate_temps) = IF extra THEN steps + 1 ELSE steps
          /\ \A i \in 1..steps : intermediate_temps[i] = gen(i)
          /\ extra => intermediate_temps[steps + 1] = target_temp
          /\ time_per_step * ramp_rate * UnitsPerDegree =
               INTERMEDIATE_STEP_SIZE * 60

\* the spec's example, 20.0 to 24.3 at 2 degrees a minute, moved down the
\* scale: from -2.0 to 2.3125 degrees, four whole steps and the target
C24_FourStepsAndTarget ==
    /\ pc = "planned"
    /\ current_temp = 0 - 32 /\ target_temp = 37 /\ ramp_rate = 2
    /\ intermediate_temps = <<0 - 16, 0, 16, 32, 37>>
    /\ time_per_step = 30

\* ------------------------------------------------------------ under SpecTarget
\* the reading on entry to ramp_to_temperature was less than a step from target
EntryWithinStep ==
    Abs(target_temp - hist.target.ramp_entry) < INTERMEDIATE_STEP_SIZE

\* C10: when the distance from the current reading to the target is below one
\* step (the two being equal included), the plan is [target] with dwell 0,
\* and the controlled ramp commands target once and logs no dwell poll before
\* the stability check starts.
C10_ShortPlan ==
    (ramp_rate # None /\ pc \in {"ramp_step", "dwell", "stab"}
       /\ EntryWithinStep) =>
      /\ intermediate_temps = <<target_temp>>
      /\ time_per_step = 0
      /\ hist.target.ramp_polls = 0
      /\ pc = "stab" => hist.target.commands = <<target_temp>>

C10_ShortPlanReached ==
    /\ ramp_rate # None /\ pc = "stab" /\ EntryWithinStep
    /\ hist.target.ramp_entry # target_temp
    /\ hist.target.commands = <<target_temp>>

\* C6: leaving the band closes the accumulation window (stable_start is None
\* again), so the window in force is always the unbroken run of in-band polls
\* in progress, and wait_for_stability returns only once that run, not an
\* earlier one, has lasted STABILITY_DURATION.
C6_WindowRestarts ==
    pc \in {"stab_poll", "confirm"} =>
      /\ stable_start_age = hist.target.band_age
      /\ hist.target.returned => hist.target.band_age >= STABILITY_DURATION

\* in band, out of it, in band again and stable there
C6_SecondWindowReturned ==
    /\ pc = "confirm" /\ hist.target.returned
    /\ hist.target.band_runs = 2

\* C7: wait_for_stability returns only when every poll since the open window
\* was opened was within TEMP_TOLERANCE of the target, the last one included,
\* and the window has been open for at least STABILITY_DURATION; the stability
\* loop is left in no other way.
C7_ReturnsOnlyStable ==
    /\ pc = "confirm" =>
         /\ hist.target.returned
         /\ ~hist.target.out_in_window
         /\ Abs(last_row.sensor - target_temp) <= TEMP_TOLERANCE
         /\ stable_start_age # None
         /\ stable_start_age >= STABILITY_DURATION
    /\ hist.target.returned => pc \in {"confirm", "loop", "all_done"}

\* a return on a reading at the edge of the band
C7_ReturnedAtBandEdge ==
    /\ pc = "confirm" /\ hist.target.returned
    /\ Abs(last_row.sensor - target_temp) = TEMP_TOLERANCE

\* C8: the overshoot sub-phase ends on the first reading that has crossed the
\* target (<= target when cooling, >= target when heating): on such a reading
\* and on no earlier or later one, and the setpoint commanded on that reading
\* is the target, not the overshoot setpoint.
C8_ExitOnFirstCrossing ==
    /\ ~hist.target.os_missed
    /\ hist.target.os_exited =>
         /\ Crossing(hist.target.os_entry, hist.target.os_exit_temp,
                     target_temp)
         /\ Last(hist.target.commands) = target_temp
         /\ tc720 = SetTemp(target_temp)
    /\ (pc \in {"os_poll", "os_loop"} /\ ~hist.target.os_exited) =>
         /\ tc720 = SetTemp(overshoot_temp)
         /\ overshoot_active

\* cooling, and the crossing read on a later poll than the first
C8_CooledAcross ==
    /\ hist.target.os_exited
    /\ hist.target.os_entry > target_temp
    /\ hist.target.os_polls = Many
    /\ hist.target.os_exit_temp < target_temp


\* C17: the targets are taken in list order with step indices 1, 2, ..., n;
\* within a target control passes from the ramp to the overshoot loop (only
\* when overshoot is enabled), to the stability loop, to the confirmatory row
\* and only then to the next target; a setpoint is commanded for a target
\* only when every earlier target has had wait_for_stability return and its
\* confirmatory row written.
C17_TargetsInOrder ==
    /\ [](step_idx > 0 =>
            /\ step_idx <= Len(temps)
            /\ target_temp = temps[step_idx]
            /\ hist.run.confirmed = IF pc \in {"loop", "all_done"}
                                    THEN step_idx ELSE step_idx - 1)
    /\ [][/\ step_idx' # step_idx =>
               (pc = "loop" /\ pc' = "ramp" /\ step_idx' = step_idx + 1)
          /\ hist'.run.confirmed # hist.run.confirmed =>
               (pc = "confirm" /\ hist.target.returned /\ pc' = "loop")
          /\ tc720' # tc720 => hist.run.confirmed = step_idx - 1
          /\ pc' # pc =>
               CASE pc = "loop"      -> pc' \in {"ramp", "all_done"}
                 [] pc = "ramp"      -> pc' \in {"fast_poll", "ramp_step"}
                 [] pc = "fast_poll" -> pc' = "stab"
                 [] pc = "ramp_step" -> pc' \in {"dwell", "stab"}
                 [] pc = "dwell"     -> pc' = "ramp_step"
                 [] pc = "stab"      -> pc' = IF use_overshoot THEN "os_poll"
                                              ELSE "stab_poll"
                 [] pc = "os_poll"   -> pc' = "os_loop"
                 [] pc = "os_loop"   -> pc' \in {"os_poll", "stab_poll"}
                 [] pc = "stab_poll" -> pc' = "confirm"
                 [] pc = "confirm"   -> pc' = "loop"
                 [] OTHER            -> FALSE]_vars

\* the second target of a list is being ramped to, the first one confirmed
C17_SecondTargetCommanded ==
    /\ step_idx = 2
    /\ target_temp = temps[2]
    /\ hist.target.commands # <<>>
    /\ hist.run.confirmed = 1

\* C18: with overshoot enabled, the setpoint in force is the overshoot value
\* from the entry of the overshoot loop until the poll that finds the
\* crossing; that poll commands the target; the overshoot value is commanded
\* by the entry only, never again for that target; and the setpoint is the
\* target whenever wait_for_stability is in its stability loop or has
\* returned.
C18_OvershootSetpoint ==
    /\ [](use_overshoot =>
            /\ (pc = "os_poll" \/ (pc = "os_loop" /\ overshoot_active)) =>
                 /\ tc720 = SetTemp(overshoot_temp)
                 /\ Last(hist.target.commands) = overshoot_temp
                 /\ ~hist.target.os_exited
            /\ (pc \in {"stab_poll", "confirm"}
                \/ (pc = "os_loop" /\ ~overshoot_active)) =>
                 /\ tc720 = SetTemp(target_temp)
                 /\ Last(hist.target.commands) = target_temp
                 /\ hist.target.os_exited)
    /\ [][(/\ hist'.target.commands # hist.target.commands
           /\ step_idx' = step_idx
           /\ pc \notin {"ramp", "ramp_step"}) =>
            IF pc = "stab"
            THEN /\ use_overshoot
                 /\ Last(hist'.target.commands) = overshoot_temp'
                 /\ tc720' = SetTemp(overshoot_temp')
            ELSE /\ pc = "os_poll"
                 /\ HasCrossed(direction, current_temp', target_temp)
                 /\ Last(hist'.target.commands) = target_temp
                 /\ tc720' = SetTemp(target_temp)]_vars
    /\ [][(hist.target.os_exited /\ hist'.target.os_exited) =>
            /\ tc720' = tc720
            /\ hist'.target.commands = hist.target.commands]_vars

\* wait_for_stability has returned after an overshoot of several polls
C18_ReturnedAfterOvershoot ==
    /\ use_overshoot
    /\ pc = "confirm"
    /\ hist.target.os_polls = Many
    /\ tc720 = SetTemp(target_temp)

\* C19: the overshoot setpoint is target - overshoot_amount when the reading
\* taken on entry to wait_for_stability is above the target and
\* target + overshoot_amount otherwise, a reading equal to the target
\* included; direction and overshoot setpoint are fixed by that one reading
\* and no later poll changes them, wherever its reading lies.
C19_DirectionFromEntry ==
    /\ []((use_overshoot /\ pc \in {"os_poll", "os_loop", "stab_poll"}) =>
            /\ direction = IF hist.target.os_entry > target_temp
                           THEN "cooling" ELSE "heating"
            /\ overshoot_temp = IF hist.target.os_entry > target_temp
                                THEN target_temp - overshoot_amount
                                ELSE target_temp + overshoot_amount)
    /\ [][(pc = "os_poll" \/ pc = "os_loop") =>
            (/\ direction' = direction
             /\ overshoot_temp' = overshoot_temp
             /\ hist.target.os_entry = hist'.target.os_entry)]_vars

\* entered at the target itself, so heating, and a later poll reads below it
C19_HeatingFromTarget ==
    /\ pc = "os_loop" /\ overshoot_active
    /\ hist.target.os_entry = target_temp
    /\ current_temp < target_temp
    /\ direction = "heating"
    /\ tc720 = SetTemp(target_temp + overshoot_amount)

\* C20: when the first poll of the overshoot loop already reads at or beyond
\* the target in the overshoot direction (at or below it when cooling, at or
\* above it when heating), that poll writes its one log row, carrying the
\* overshoot setpoint, and commands the target, and the loop is left without
\* a second poll: the overshoot setpoint has been commanded once and one
\* overshoot row written.
C20_PastTargetAtFirstPoll ==
    /\ [][(/\ pc = "os_poll" /\ pc' # pc
           /\ hist.target.os_polls = 0
           /\ IF direction = "cooling" THEN current_temp' <= target_temp
              ELSE current_temp' >= target_temp) =>
            (/\ hist'.target.os_polls = 1
             /\ hist'.target.os_exited
             /\ ~overshoot_active'
             /\ last_row' = Row(overshoot_temp, current_temp')
             /\ hist'.target.commands =
                  Append(hist.target.commands, target_temp)
             /\ Last(hist.target.commands) = overshoot_temp
             /\ tc720 = SetTemp(overshoot_temp)
             /\ tc720' = SetTemp(target_temp))]_vars
    /\ [][(pc = "os_loop" /\ ~overshoot_active /\ pc' # pc) =>
            (/\ pc' = "stab_poll"
             /\ hist'.target.os_polls = hist.target.os_polls
             /\ last_row' = last_row
             /\ tc720' = tc720)]_vars
    /\ [](hist.target.os_exited => pc \notin {"stab", "os_poll"})

\* heating was chosen at the target itself, the first poll read the target
\* again, and the stability loop has been entered after that one poll
C20_LeftAfterOnePoll ==
    /\ pc = "stab_poll"
    /\ direction = "heating"
    /\ hist.target.os_exited
    /\ hist.target.os_polls = 1
    /\ hist.target.os_exit_temp = target_temp

\* C21: every poll of wait_for_stability writes exactly one log row with the
\* current step index: a poll of the overshoot loop, the one finding the
\* crossing included, a row whose target column is the overshoot setpoint; a
\* poll of the stability loop, the one that returns included, a row whose
\* target column is the target.
C21_OneRowPerPoll ==
    /\ [](/\ hist.target.os_rows = hist.target.os_polls
          /\ hist.target.stab_rows = hist.target.stab_polls)
    /\ [][(pc = "os_poll" /\ pc' # pc) =>
            (/\ hist'.target.os_polls = UpTo(hist.target.os_polls, Many)
             /\ last_row' = [target |-> overshoot_temp,
                             sensor |-> current_temp',
                             step   |-> step_idx])]_vars
    /\ [][(pc = "stab_poll" /\ (pc' # pc \/ sleep_left' > sleep_left)) =>
            (/\ hist'.target.stab_polls = UpTo(hist.target.stab_polls, Many)
             /\ last_row' = [target |-> target_temp,
                             sensor |-> current_temp',
                             step   |-> step_idx])]_vars

\* the crossing poll and the returning poll have both written their rows
C21_RowsOfBothLoops ==
    /\ pc = "confirm"
    /\ hist.target.os_exited
    /\ hist.target.os_rows = 1
    /\ hist.target.stab_rows = Many
    /\ last_row = Row(target_temp, current_temp)
    /\ step_idx = 2

\* C22: with ramp_rate None, ramp_to_temperature does not call
\* calculate_intermediate_temps; it commands the target itself, once, and
\* then polls and logs; it returns, so that wait_for_stability begins, on the
\* first poll reading within twice TEMP_TOLERANCE of the target and on no
\* other; no other setpoint is commanded meanwhile.
C22_FastModeDirect ==
    /\ []((ramp_rate = None /\ step_idx > 0) =>
            /\ pc \notin {"ramp_step", "dwell"}
            /\ intermediate_temps = <<>> /\ time_per_step = 0
            /\ pc = "fast_poll" =>
                 /\ hist.target.commands = <<target_temp>>
                 /\ tc720 = SetTemp(target_temp)
            /\ pc = "stab" =>
                 /\ hist.target.commands = <<target_temp>>
                 /\ tc720 = SetTemp(target_temp)
                 /\ hist.target.ramp_polls > 0
                 /\ last_row = [target |-> target_temp,
                                sensor |-> current_temp, step |-> step_idx]
                 /\ current_temp - target_temp <= 2 * TEMP_TOLERANCE
                 /\ target_temp - current_temp <= 2 * TEMP_TOLERANCE)
    /\ [][(pc = "fast_poll" /\ (pc' # pc \/ sleep_left' > sleep_left)) =>
            (/\ tc720' = tc720
             /\ last_row' = [target |-> target_temp,
                             sensor |-> current_temp', step |-> step_idx]
             /\ pc' = IF /\ current_temp' - target_temp <= 2 * TEMP_TOLERANCE
                         /\ target_temp - current_temp' <= 2 * TEMP_TOLERANCE
                      THEN "stab" ELSE "fast_poll")]_vars

\* fast mode has returned on a reading outside the tolerance band proper,
\* after more than one poll
C22_ReturnedNearTarget ==
    /\ ramp_rate = None
    /\ pc = "stab"
    /\ hist.target.ramp_polls = Many
    /\ Abs(current_temp - target_temp) > TEMP_TOLERANCE

\* C23: with a ramp rate, the setpoints of the plan made from the entry
\* reading are commanded one by one in plan order, each once; the next one
\* is commanded only when the dwell of the one before has lasted
\* time_per_step, whatever was read meanwhile; and every row written in a
\* dwell has the setpoint in force as its target column.
C23_PlanFollowed ==
    /\ []((ramp_rate # None /\ pc \in {"ramp_step", "dwell", "stab"}) =>
            /\ intermediate_temps =
                 calculate_intermediate_temps(hist.target.ramp_entry,
                                              target_temp, ramp_rate).temps
            /\ hist.target.commands =
                 SubSeq(intermediate_temps, 1,
                        IF pc = "stab" THEN Len(intermediate_temps)
                        ELSE setpoint_idx)
            /\ setpoint_idx > 0 => tc720 = SetTemp(intermediate_temps[setpoint_idx]))
    /\ [][(pc = "dwell" /\ (pc' # pc \/ sleep_left' > sleep_left)) =>
            IF step_start_age < time_per_step
            THEN /\ pc' = "dwell"
                 /\ last_row' = [target |-> intermediate_temps[setpoint_idx],
                                 sensor |-> current_temp', step |-> step_idx]
                 /\ tc720' = tc720
            ELSE /\ pc' = "ramp_step"
                 /\ last_row' = last_row /\ tc720' = tc720]_vars
    /\ [][(pc = "ramp_step" /\ pc' # pc) =>
            IF setpoint_idx < Len(intermediate_temps)
            THEN /\ pc' = "dwell"
                 /\ setpoint_idx' = setpoint_idx + 1
                 /\ tc720' = SetTemp(intermediate_temps[setpoint_idx + 1])
            ELSE pc' = "stab" /\ tc720' = tc720]_vars

\* a plan of two setpoints has been followed to its end, with rows logged
C23_PlanCommandedThrough ==
    /\ ramp_rate # None
    /\ pc = "stab"
    /\ Len(intermediate_temps) = 2
    /\ hist.target.commands = intermediate_temps
    /\ hist.target.ramp_polls = Many

\* C31: whenever the stability loop of wait_for_stability is polling for a
\* target, the setpoint the controller was last given is that target: in fast
\* mode, after a controlled ramp from any reading, with or without overshoot.
C31_SetpointIsTargetInStabLoop ==
    pc = "stab_poll" =>
      /\ tc720 = SetTemp(target_temp)
      /\ Last(hist.target.commands) = target_temp
\* ------------------------------------------------------------ under Spec
\* collect_data has returned, or raised, to the outer loop
BackInMain == pc \in {"m_finished", "m_except", "profile", "cleanup", "exited"}

\* C1: after a KeyboardInterrupt delivered inside the per-target loop,
\* collect_data has written the metadata record exactly once, with
\* completed = false, and has invoked set_idle exactly once.
C1_InterruptFinalizedOnce ==
    hist.run.ended = "interrupt" =>
      /\ hist.run.meta_writes <= 1
      /\ hist.run.idle_calls <= 1
      /\ BackInMain =>
           /\ hist.run.meta_writes = 1
           /\ hist.run.idle_calls = 1
           /\ metadata[Exp].written
           /\ ~metadata[Exp].completed

C1_InterruptedAndReturned ==
    /\ pc = "m_finished"
    /\ hist.run.ended = "interrupt"
    /\ keyboard_interrupt_count = 1
    /\ metadata[Exp].written

\* C2: once collect_data has set experiment_running to False for an
\* experiment, that experiment's sweep thread begins no further pass of its
\* loop, whatever the operator does next.
C2_NoPassAfterStop ==
    \A e \in Experiments : hist.run.late_cycles[e] = 0

\* C3: when an experiment's metadata has been finalized, however the
\* experiment ended and whether or not set_idle raised, the controller is idle.
C3_IdleWhenFinalized ==
    pc \in {"m_finished", "m_except"} => tc720.mode = "idle"

\* C4: when a call in the experiment body raises, the finally block has run
\* exactly once before the exception reaches the outer loop (stop signalled,
\* set_idle invoked once, metadata written once with completed = false), and
\* the outer loop reports the error and goes on to its prompt.
C4_ErrorFinalizedOnce ==
    hist.run.ended = "error" =>
      /\ hist.run.stop_signals <= 1
      /\ hist.run.idle_calls <= 1
      /\ hist.run.meta_writes <= 1
      /\ pc # "m_finished"
      /\ BackInMain =>
           /\ hist.run.stop_signals = 1
           /\ ~experiment_running
           /\ hist.run.idle_calls = 1
           /\ hist.run.meta_writes = 1
           /\ metadata[Exp].written
           /\ ~metadata[Exp].completed
      /\ pc \in {"profile", "cleanup", "exited"} =>
           hist.run.reported /\ raised = "none"

\* the error is reported and the next experiment can be configured
C4_NewExperimentOffered ==
    /\ hist.run.ended = "error" /\ hist.run.reported
    /\ pc = "profile"
    /\ experiment_number < MaxExperiments

\* C5: the sweep numbers a sampling task takes, failed passes included, are
\* 1, 2, 3, ... in this order.
C5_NumbersInSequence ==
    \A e \in Experiments :
      \A i \in 1..Len(hist.run.assigned[e]) : hist.run.assigned[e][i] = i


\* C11: when the per-target loop has completed all targets, collect_data
\* writes the metadata record exactly once, with completed = true, and invokes
\* set_idle exactly once; and completed = true is written only when the loop
\* ran to its end with every target of the list stabilized and given its
\* confirmatory row.
C11_CompletedFinalizedOnce ==
    /\ hist.run.ended = "completed" =>
         /\ hist.run.meta_writes <= 1
         /\ hist.run.idle_calls <= 1
         /\ BackInMain =>
              /\ hist.run.meta_writes = 1
              /\ hist.run.idle_calls = 1
              /\ metadata[Exp].written
              /\ metadata[Exp].completed
    /\ \A e \in Experiments :
         (e = Exp /\ metadata[e].completed) =>
           /\ hist.run.ended \in {"completed", "interrupt_after_loop"}
           /\ hist.run.missed = 0
    /\ pc = "confirm" => hist.target.returned

C11_CompletedAndReturned ==
    /\ pc = "m_finished"
    /\ hist.run.ended = "completed"
    /\ metadata[Exp].written /\ metadata[Exp].completed
    /\ keyboard_interrupt_count = 0

\* C12: a KeyboardInterrupt inside the per-target loop shuts that experiment
\* down in order (experiment_running False, controller idle, metadata written
\* with completed = false) and brings the program to its prompt; the process
\* ends only by a further interrupt at that prompt.
C12_InterruptIsControlPath ==
    hist.run.ended = "interrupt" =>
      /\ pc # "killed"
      /\ BackInMain =>
           /\ ~experiment_running
           /\ tc720.mode = "idle"
           /\ metadata[Exp].written /\ ~metadata[Exp].completed

\* C13: an error in a pass of a sweep thread does not end the thread: from
\* the acquisition it goes to its sleep or, on an error, to the backoff
\* sleep, from the backoff sleep back to the loop test, and it returns only
\* from the loop test with experiment_running False; an error caught while the
\* thread's experiment has not been told to stop is printed.
C13_ErrorNotFatal ==
    /\ [][\A e \in Experiments :
            /\ (thread[e].at = "query" /\ thread'[e].at # "query")
                 => thread'[e].at \in {"sleep", "backoff"}
            /\ (thread[e].at = "number" /\ thread'[e].at # "number")
                 => thread'[e].at \in {"query", "backoff"}
            /\ (thread[e].at = "backoff" /\ thread'[e].at # "backoff")
                 => thread'[e].at = "while"
            /\ (thread'[e].at = "returned" /\ thread[e].at # "returned")
                 => (thread[e].at = "while" /\ ~experiment_running)]_vars
    /\ [](\A e \in Experiments : hist.run.silent[e] => hist.run.stopped[e])

\* a pass failed, and the thread is acquiring again in its next pass
C13_RetriedAfterError ==
    \E e \in Experiments :
      /\ thread[e].at = "query"
      /\ Len(hist.run.assigned[e]) = 2
      /\ sweep_files[e] = <<>>
      /\ ~hist.run.stopped[e]

\* C14: at any time at most one sweep thread is inside a pass of its loop
\* (between the loop test it passed and the end of its acquisition), over any
\* sequence of experiments.
C14_OneSamplerAtATime ==
    \A e1, e2 \in Experiments :
      (/\ thread[e1].at \in {"lock", "store", "number", "query"}
       /\ thread[e2].at \in {"lock", "store", "number", "query"}) => e1 = e2

\* C15: an experiment is started only with both devices connected; when
\* initialize_devices() returns None for the TC-720 or for the VNA the process
\* has exited without an experiment number taken, without collect_data entered
\* and without a sweep thread started, and stays so.
C15_NoStartWithoutDevices ==
    /\ (pc # "init" /\ ~(hist.run.devices.tc720 /\ hist.run.devices.vna)) =>
         /\ pc = "exited"
         /\ experiment_number = 0
         /\ \A e \in Experiments :
              /\ thread[e].at = "unborn"
              /\ ~metadata[e].written
         /\ tc720.setpoint = <<>>
    /\ (experiment_number > 0 \/ \E e \in Experiments : thread[e].at # "unborn")
         => (hist.run.devices.tc720 /\ hist.run.devices.vna)

\* the TC-720 is connected, the VNA is not, and the process has exited
C15_ExitedWithoutVNA ==
    /\ pc = "exited"
    /\ hist.run.devices.tc720 /\ ~hist.run.devices.vna

\* C16: an experiment is shut down in the order: the per-target loop is left,
\* experiment_running is set False, set_idle() is invoked, metadata.json is
\* written. The metadata is never written before both earlier steps, set_idle()
\* is never invoked before the flag is cleared, and from the stop on no target
\* is taken up and no setpoint is commanded in that experiment.
C16_ShutdownInOrder ==
    /\ [](hist.run.idle_calls > 0 => hist.run.stop_signals > 0)
    /\ [](hist.run.meta_writes > 0 =>
            (hist.run.idle_calls > 0 /\ hist.run.stop_signals > 0))
    /\ [](hist.run.stop_signals > 0 => pc \notin TryPcs)
    /\ [][(hist.run.stop_signals > 0 /\ hist'.run.stop_signals > 0) =>
            /\ step_idx' = step_idx
            /\ tc720'.setpoint \in {tc720.setpoint, <<>>}]_vars

\* an experiment that failed has been shut down, each step taken once
C16_ShutDownAfterError ==
    /\ pc = "m_except"
    /\ hist.run.stop_signals = 1
    /\ hist.run.idle_calls = 1
    /\ hist.run.meta_writes = 1
    /\ tc720 = SetIdle

\* C25: a sweep thread reads experiment_running at its loop test only.  A
\* pass under way when the flag is cleared goes on: it takes its number, and
\* the step that writes its sweep file stays possible; the thread returns
\* only from the loop test, exactly when it finds the flag False there, and
\* having returned it begins no pass again.
C25_StopReadAtLoopTest ==
    /\ [](\A e \in Experiments :
            /\ (At(e, "store") \/ At(e, "number")) => ENABLED T_Store(e) \/ ENABLED T_Number(e)
            /\ At(e, "query") =>
                 ENABLED (T_Query(e) /\ Len(sweep_files'[e]) > Len(sweep_files[e])))
    /\ [][\A e \in Experiments :
            /\ (thread[e].at = "while" /\ thread'[e].at # "while") =>
                 thread'[e].at = IF experiment_running THEN "lock"
                                 ELSE "returned"
            /\ (thread[e].at # "while" /\ thread'[e].at = "returned") =>
                 thread[e].at = "returned"
            /\ thread[e].at = "returned" => thread'[e] = thread[e]
            /\ (thread[e].at = "store" /\ thread'[e].at # "store") =>
                 (thread'[e].at = "number"
                  /\ vna_sweep_count' = thread[e].loaded + 1)
            /\ (thread[e].at = "query" /\ thread'[e].at = "sleep") =>
                 (/\ Len(sweep_files'[e]) = Len(sweep_files[e]) + 1
                  /\ Last(sweep_files'[e]).num = thread[e].sweep_num)
         ]_vars

\* experiment e has been told to stop while its thread is in the acquisition
\* of a pass begun before that
C25_StoppedInAcquisition ==
    \E e \in Experiments :
      /\ At(e, "query")
      /\ ~experiment_running
      /\ hist.run.stopped[e]
      /\ hist.run.late_cycles[e] = 0
      /\ thread[e].passes = 1

\* C27: every number a sweep thread has taken has exactly one sweep file
\* carrying it: between two passes, the numbers of the thread's files are the
\* numbers it took, each once and in the order taken.
C27_OneFilePerNumber ==
    \A e \in Experiments :
      thread[e].at \in {"while", "sleep", "backoff", "returned"} =>
        [i \in 1..Len(sweep_files[e]) |-> sweep_files[e][i].num]
          = hist.run.assigned[e]

\* C28: no exception is caught without a message: a sweep thread's handler
\* has never passed over an error without printing, and set_idle() has never
\* failed in the finally block of collect_data, where nothing is printed for
\* it.
C28_NoSilentError ==
    /\ \A e \in Experiments : ~hist.run.silent[e]
    /\ ~hist.run.idle_failed

\* C29: in the shutdown of an experiment set_idle() is invoked only after
\* the wait that lets the sweep thread see the cleared flag: once set_idle()
\* has been invoked, no part of the sleep of line 631 is still to come.
C29_IdleAfterGraceWait ==
    (pc = "f_meta" /\ hist.run.idle_calls > 0) => sleep_left = 0

\* C30: the total_sweeps of an experiment's metadata is the number of sweep
\* files of that experiment, compared once its sweep thread has returned and
\* no file can follow.
C30_TotalSweepsIsFileCount ==
    \A e \in Experiments :
      (metadata[e].written /\ thread[e].at = "returned") =>
        metadata[e].total_sweeps = Len(sweep_files[e])

\* C32: once the metadata of an experiment is written, no sweep file is
\* added to that experiment's directory and its sweep thread increments
\* vna_sweep_count no more.
C32_NoSweepAfterMetadata ==
    [][\A e \in Experiments :
         metadata[e].written =>
           /\ sweep_files'[e] = sweep_files[e]
           /\ thread[e].at = "store" => thread'[e].at = "store"]_vars

\* C33: when the first pass of an experiment's sweep thread computes the
\* elapsed time (line 464), experiment_start_time holds the start time of
\* that experiment: not None, and not the start time of the one before.
C33_StartTimeSetBeforeUse ==
    [][\A e \in Experiments :
         (thread[e].at = "number" /\ thread'[e].at # "number"
            /\ thread[e].passes = 1) =>
           experiment_start_time = e]_vars

\* ------------------------------------------------------------ under SpecSweep
\* C26, as claimed: every sweep file carries, in its rows and in its name,
\* exactly the reading the thread took from the tracker, a reading the main
\* thread put there; and the row last logged has the tracker's value as its
\* sensor column.
C26_SnapshotCarriedExactly ==
    /\ \A e \in Experiments : \A i \in 1..Len(sweep_files[e]) :
         /\ sweep_files[e][i].temp \in sensor_range
         /\ sweep_files[e][i].name_temp * UnitsPerDegree =
              10 * sweep_files[e][i].temp
    /\ last_row # NoRow => last_row.sensor = current_temp_tracker[Exp]

\* C26, amended: the tracker is written by the main thread only, with the
\* reading it has just taken; a sweep thread takes the tracker's value at the
\* start of a pass and the file of that pass has exactly that value in its
\* rows and, in its name, the tenth of a degree nearest to it; files once
\* written stay as they are; the row last logged has the tracker's value as
\* its sensor column.
C26_SnapshotCarriedRounded ==
    /\ [](/\ \A e \in Experiments : \A i \in 1..Len(sweep_files[e]) :
               /\ sweep_files[e][i].temp \in sensor_range
               /\ 2 * Abs(sweep_files[e][i].name_temp * UnitsPerDegree
                          - 10 * sweep_files[e][i].temp) <= UnitsPerDegree
          /\ \A e \in Experiments :
               thread[e].at # "unborn" => current_temp_tracker[e] \in sensor_range
          /\ last_row # NoRow => last_row.sensor = current_temp_tracker[Exp])
    /\ [][current_temp_tracker' # current_temp_tracker =>
            (/\ thread' = thread
             /\ current_temp_tracker'[Exp] \in sensor_range
             /\ pc # "cd_tracker" => current_temp_tracker'[Exp] = current_temp'
             /\ \A e \in Experiments \ {Exp} :
                  current_temp_tracker'[e] = current_temp_tracker[e])]_vars
    /\ [][\A e \in Experiments :
            /\ (thread[e].at = "while" /\ thread'[e].at = "lock") =>
                 thread'[e].current_temp = current_temp_tracker[e]
            /\ (thread[e].at \in {"lock", "store", "number"}
                /\ thread'[e].at \in {"lock", "store", "number", "query"}) =>
                 thread'[e].current_temp = thread[e].current_temp
            /\ sweep_files'[e] # sweep_files[e] =>
                 (/\ thread[e].at = "query"
                  /\ Len(sweep_files'[e]) = Len(sweep_files[e]) + 1
                  /\ SubSeq(sweep_files'[e], 1, Len(sweep_files[e]))
                       = sweep_files[e]
                  /\ Last(sweep_files'[e]).temp = thread[e].current_temp)
         ]_vars

\* a file holds 1.4375 degrees in its rows and 1.4 in its name, taken from the
\* tracker before the main thread went on to write 2.0 degrees there
C26_EarlierSnapshotInFile ==
    \E e \in Experiments :
      /\ Len(sweep_files[e]) = 1
      /\ sweep_files[e][1].temp = 23
      /\ sweep_files[e][1].name_temp = 14
      /\ current_temp_tracker[e] = 32

\* ------------------------------------------------------------ under SpecLive
\* for every target, the readings taken while ramp_to_temperature (fast mode)
\* or the stability loop polls for it are, from some time on, all within
\* TEMP_TOLERANCE of it
ReadingsSettle ==
    \A k \in 1..2 :
      <>[]((step_idx = k /\ pc \in {"fast_poll", "stab_poll"}) =>
             Abs(current_temp - target_temp) <= TEMP_TOLERANCE)

\* for every target, the readings the overshoot loop takes are, from some
\* time on, all at or beyond the target in the overshoot direction
ReadingsCross ==
    \A k \in 1..2 :
      <>[]((step_idx = k /\ pc = "os_loop") =>
             IF direction = "cooling" THEN current_temp <= target_temp
             ELSE current_temp >= target_temp)

\* C34: with the main thread running on, no Ctrl+C and no failing call, if
\* for every target the readings come to stay within the tolerance band and,
\* with overshoot, come to cross the target, then every target is processed
\* (so ramp_to_temperature and the overshoot loop end each time), and
\* collect_data returns with metadata.json written and completed = true.
C34_ExperimentCompletes ==
    (ReadingsSettle /\ ReadingsCross) =>
      <>(/\ pc = "m_finished"
         /\ hist.run.ended = "completed"
         /\ hist.run.missed = 0
         /\ metadata[Exp].written /\ metadata[Exp].completed)

\* collect_data has returned from a completed experiment of two targets
C34_CompletedTwoTargets ==
    /\ pc = "m_finished"
    /\ hist.run.ended = "completed"
    /\ hist.run.missed = 0
    /\ metadata[Exp].completed
    /\ hist.run.meta_writes = 1
    /\ tc720 = SetIdle
=============================================================================
